---- MODULE Spec2Model ----
(***************************************************************************)
(* Kado: narrated screen recording -> timestamped failure events.          *)
(*                                                                         *)
(* The analysis pipeline of one POST /analyze request, as laid out in the  *)
(* repository's v0 specification (src/unnamed/part_001, "Pipeline (single  *)
(* synchronous request)", steps 1-10).  The api/ package that implements   *)
(* the steps is not among the sources; what the v0 specification does not  *)
(* fix is modelled from the design text and marked so in MODEL_MAP.json.   *)
(*                                                                         *)
(* Units: timestamps are whole seconds, confidences are hundredths         *)
(* (0..1 is 0..100), transcript indices are 0-based as in the design.      *)
(***************************************************************************)
EXTENDS Integers, Sequences, FiniteSets, TLC

VARIABLES
    upload,       \* the uploaded file: [ext, readable, duration]
    stage,        \* orchestrator state (design 4.7)
    tempFiles,    \* temp files that exist on disk
    cleaned,      \* cleanup has run
    transcript,   \* TranscriptSegment[] from the transcriber
    candIdx,      \* candidate segment indices, ascending
    windows,      \* one ContextWindow per candidate
    wcur,         \* window being extracted (0: windows not built yet)
    calls,        \* per window: validity of each backend call made, in order
    wstatus,      \* per window: "pending" | "done" | "skipped"
    lastResponse, \* the backend's latest answer, while the engine holds it
    rawAccepted,  \* per window: the backend payload that passed validation
    results,      \* per window: the FailureEvents it contributes
    candidates,   \* concatenation of results, in window order
    mcur,         \* next candidate the merger looks at
    accepted,     \* merger's accepted list: indices into candidates
    lostTo,       \* per candidate: 0, or the candidate it was dropped for
    sorted,       \* accepted, ordered for the response
    error,        \* the fatal error raised, or "none"
    response,     \* what the caller has received so far
    completed,    \* windows in the order their extraction finished
    vanished,     \* temp files removed behind the orchestrator's back
    state,        \* client: AppState
    file,         \* client: the file held, or null
    result,       \* client: the AnalyzeResponse held, or null
    errorMsg,     \* client: the error state variable (a message)
    copied,       \* client
    showJson,     \* client
    activeStep,   \* client: index into PIPELINE_STEPS
    dragover,     \* client
    stepInterval, \* client: analyze's progress interval is running
    pc,           \* client: where analyze is suspended
    res,          \* client: the response analyze holds while reading its body
    sent,         \* the file in the latest request to /analyze, or null
    copyTimers    \* client: pending timeouts set by copyJson

pvars == <<upload, stage, tempFiles, cleaned, transcript, candIdx, windows,
           wcur, calls, wstatus, lastResponse, rawAccepted, results, candidates,
           mcur, accepted, lostTo, sorted, error, response,
           completed, vanished>>

cvars == <<state, file, result, errorMsg, copied, showJson, activeStep,
           dragover, stepInterval, pc, res, sent, copyTimers>>

vars == <<pvars, cvars>>

-----------------------------------------------------------------------------
(* Bounds of the model *)

MaxSegs == 2
MaxEventsPerResponse == 1
MaxCands == 3
MaxWinSegs == 6
MaxCopyTimers == 2

-----------------------------------------------------------------------------
(* Program constants *)

WindowRadius == 2
MaxAttempts == 2
MaxDedupGapSeconds == 30
MaxDurationSeconds == 300
ConfMin == 0
ConfMax == 100
SimilarityNum == 1
SimilarityDen == 2

SupportedContainers == {"mp4", "mov", "webm"}

-----------------------------------------------------------------------------
(* Generic helpers *)

Min(a, b) == IF a < b THEN a ELSE b
Max(a, b) == IF a > b THEN a ELSE b
Abs(a) == IF a < 0 THEN 0 - a ELSE a

Range(s) == {s[i] : i \in 1..Len(s)}

SeqsUpTo(S, n) == UNION {[1..k -> S] : k \in 0..n}

RECURSIVE Concat(_)
Concat(ss) == IF ss = <<>> THEN <<>> ELSE Head(ss) \o Concat(Tail(ss))

-----------------------------------------------------------------------------
(* Transcript text.  A text is its sequence of characters, so that the    *)
(* detector's lower-casing and substring search are computed, not assumed. *)

Uppers == <<"A","B","C","D","E","F","G","H","I","J","K","L","M",
            "N","O","P","Q","R","S","T","U","V","W","X","Y","Z">>
Lowers == <<"a","b","c","d","e","f","g","h","i","j","k","l","m",
            "n","o","p","q","r","s","t","u","v","w","x","y","z">>

LowerChar(c) ==
    IF \E i \in 1..Len(Uppers) : Uppers[i] = c
    THEN Lowers[CHOOSE i \in 1..Len(Uppers) : Uppers[i] = c]
    ELSE c

LowerText(t) == [i \in 1..Len(t) |-> LowerChar(t[i])]

IsSubstring(k, t) ==
    \E off \in 0..(Len(t) - Len(k)) :
        \A i \in 1..Len(k) : t[off + i] = k[i]

FailureKeywords ==
    { <<"d","o","e","s","n","'","t">>,
      <<"d","o","e","s"," ","n","o","t">>,
      <<"n","o","t","h","i","n","g"," ","h","a","p","p","e","n","s">>,
      <<"b","r","o","k","e","n">>,
      <<"e","r","r","o","r">>,
      <<"b","u","g">>,
      <<"f","a","i","l","s">>,
      <<"w","r","o","n","g">>,
      <<"s","t","u","c","k">>,
      <<"c","r","a","s","h">>,
      <<"n","o","t"," ","w","o","r","k","i","n","g">>,
      <<"i","s","s","u","e">>,
      <<"p","r","o","b","l","e","m">> }

ContainsKeyword(t) == \E k \in FailureKeywords : IsSubstring(k, LowerText(t))

\* "it works" / "Bugs everywhere": the second matches "bug" only
\* case-insensitively and inside a longer word.
TextPlain == <<"i","t"," ","w","o","r","k","s">>
TextBugs == <<"B","u","g","s">>
Texts == {TextPlain, TextBugs}

\* Segments abut, ten seconds each.
Segment(i, t) == [start |-> i * 10, end |-> (i + 1) * 10, text |-> t]

Transcripts ==
    {[i \in 1..Len(ts) |-> Segment(i - 1, ts[i])] : ts \in SeqsUpTo(Texts, MaxSegs)}

-----------------------------------------------------------------------------
(* Candidate Detector and Window Builder (pipeline steps 4 and 5) *)

SegAt(segs, i) == segs[i + 1]

RECURSIVE IndicesFrom(_, _)
IndicesFrom(segs, i) ==
    IF i >= Len(segs) THEN <<>>
    ELSE IF ContainsKeyword(SegAt(segs, i).text)
         THEN <<i>> \o IndicesFrom(segs, i + 1)
         ELSE IndicesFrom(segs, i + 1)

DetectCandidates(segs) == IndicesFrom(segs, 0)

\* As BuildWindow, but center_index is the index into the transcript.
BuildWindowAbsoluteCenter(segs, idx) ==
    LET lo == Max(0, idx - WindowRadius)
        hi == Min(Len(segs) - 1, idx + WindowRadius)
    IN  [segments |-> [k \in 1..(hi - lo + 1) |-> SegAt(segs, lo + k - 1)],
         center_index |-> idx]

BuildWindow(segs, idx) ==
    LET lo == Max(0, idx - WindowRadius)
        hi == Min(Len(segs) - 1, idx + WindowRadius)
    IN  [segments |-> [k \in 1..(hi - lo + 1) |-> SegAt(segs, lo + k - 1)],
         center_index |-> idx - lo]

\* As BuildWindows, but with no candidate the whole transcript is one window.
BuildWindowsOrWhole(segs, idxs) ==
    IF idxs = <<>>
    THEN <<[segments |-> segs, center_index |-> 0]>>
    ELSE [w \in 1..Len(idxs) |-> BuildWindow(segs, idxs[w])]

BuildWindows(segs, idxs) ==
    [w \in 1..Len(idxs) |-> BuildWindow(segs, idxs[w])]

-----------------------------------------------------------------------------
(* FailureEvent and the extraction backend's raw output *)

\* A title is its set of normalised words.
TitleSubmit == {"submit"}
TitleSubmitFails == {"submit", "fails"}
TitleFails == {"fails"}
Titles == {TitleSubmit, TitleSubmitFails, TitleFails}

\* 61 lies beyond the 60 s of the valid upload; 31 - 0 exceeds the dedup gap.
TimeVals == {0, 30, 31, 61}
\* -10 and 150 lie outside 0..1.
ConfVals == {-10, 50, 90, 150}
Shapes == {"ok", "missing_field", "wrong_type"}

\* One element of the backend's JSON array, before validation.
RawEvent(t, title, c, shape) ==
    [timestamp_seconds |-> t, title |-> title, expected |-> "expected",
     actual |-> "actual", evidence |-> "evidence", confidence |-> c,
     shape |-> shape]

\* What the backend answers in the full pipeline: two well-formed events that
\* are duplicates of each other, one past the end of the video, one with an
\* out-of-range confidence, one with a missing field.
BackendEvents ==
    { RawEvent(0, TitleSubmit, 50, "ok"),
      RawEvent(30, TitleSubmitFails, 90, "ok"),
      RawEvent(61, TitleFails, 50, "ok"),
      RawEvent(0, TitleSubmit, 150, "ok"),
      RawEvent(30, TitleFails, 90, "missing_field") }

FailureKinds == {"timeout", "non_2xx", "bad_envelope", "bad_json", "not_array"}

BackendResponse(kind, payload) == [kind |-> kind, payload |-> payload]

NoCall == BackendResponse("none", <<>>)

BackendResponses ==
    {BackendResponse(k, <<>>) : k \in FailureKinds}
    \cup {BackendResponse("json", p) : p \in SeqsUpTo(BackendEvents, MaxEventsPerResponse)}

-----------------------------------------------------------------------------
(* Extraction Engine: validation (pipeline steps 6 and 7) *)

ValidConfidenceAny(c) == TRUE

ValidConfidence(c) == ConfMin <= c /\ c <= ConfMax

ValidEvent(raw) == raw.shape = "ok" /\ ValidConfidence(raw.confidence)

\* As ResponseValid, but a timed-out call counts as an empty answer.
ResponseValidTimeoutAsEmpty(r) ==
    /\ r.kind \in {"json", "timeout"}
    /\ \A i \in 1..Len(r.payload) : ValidEvent(r.payload[i])

ResponseValid(r) ==
    /\ r.kind = "json"
    /\ \A i \in 1..Len(r.payload) : ValidEvent(r.payload[i])

ToEvent(raw) ==
    [timestamp_seconds |-> raw.timestamp_seconds, title |-> raw.title,
     expected |-> raw.expected, actual |-> raw.actual,
     evidence |-> raw.evidence, confidence |-> raw.confidence]

ToEvents(payload) == [i \in 1..Len(payload) |-> ToEvent(payload[i])]

WithinDurationAny(e, duration) == TRUE

WithinDuration(e, duration) ==
    0 <= e.timestamp_seconds /\ e.timestamp_seconds <= duration

DropOutOfRange(events, duration) ==
    SelectSeq(events, LAMBDA e : WithinDuration(e, duration))

WindowEvents(payload, duration) == DropOutOfRange(ToEvents(payload), duration)

-----------------------------------------------------------------------------
(* Merger/Deduplicator (pipeline step 8) *)

TitlesSimilar(a, b) ==
    Cardinality(a \cap b) * SimilarityDen >= Cardinality(a \cup b) * SimilarityNum

IsDuplicateTimeOnly(e1, e2) ==
    Abs(e1.timestamp_seconds - e2.timestamp_seconds) <= MaxDedupGapSeconds

IsDuplicate(e1, e2) ==
    /\ Abs(e1.timestamp_seconds - e2.timestamp_seconds) <= MaxDedupGapSeconds
    /\ TitlesSimilar(e1.title, e2.title)

PrefersOrEqual(new, old) == new.confidence >= old.confidence

\* The new candidate wins only with a strictly higher confidence.
Prefers(new, old) == new.confidence > old.confidence

DuplicateSlots(acc, cands, c) ==
    {s \in 1..Len(acc) : IsDuplicate(cands[acc[s]], cands[c])}

FirstDuplicateSlot(acc, cands, c) ==
    CHOOSE s \in DuplicateSlots(acc, cands, c) :
        \A s2 \in DuplicateSlots(acc, cands, c) : s <= s2

MergeOne(acc, cands, c) ==
    IF DuplicateSlots(acc, cands, c) = {} THEN Append(acc, c)
    ELSE LET s == FirstDuplicateSlot(acc, cands, c)
         IN  IF Prefers(cands[c], cands[acc[s]])
             THEN [acc EXCEPT ![s] = c]
             ELSE acc

\* The whole merge: the first n candidates taken in order.
RECURSIVE MergeUpTo(_, _)
MergeUpTo(cands, n) ==
    IF n = 0 THEN <<>> ELSE MergeOne(MergeUpTo(cands, n - 1), cands, n)

MergeEvents(cands) == MergeUpTo(cands, Len(cands))

-----------------------------------------------------------------------------
(* Final ordering (pipeline step 9): a stable ascending sort *)

RECURSIVE InsertByTimestamp(_, _, _)
InsertByTimestamp(out, cands, c) ==
    IF out = <<>> THEN <<c>>
    ELSE IF cands[out[Len(out)]].timestamp_seconds <= cands[c].timestamp_seconds
         THEN Append(out, c)
         ELSE Append(InsertByTimestamp(SubSeq(out, 1, Len(out) - 1), cands, c),
                     out[Len(out)])

\* As SortByTimestamp, with the sort left out.
KeepMergeOrder(acc, cands) == acc

RECURSIVE SortByTimestamp(_, _)
SortByTimestamp(acc, cands) ==
    IF acc = <<>> THEN <<>>
    ELSE InsertByTimestamp(SortByTimestamp(SubSeq(acc, 1, Len(acc) - 1), cands),
                           cands, acc[Len(acc)])

\* As EventsOf, but each event carries the highest confidence found among
\* the candidates that are duplicates of it.
EventsOfBestConfidence(idxs, cands) ==
    [i \in 1..Len(idxs) |->
        [cands[idxs[i]] EXCEPT
            !.confidence =
                CHOOSE m \in {cands[k].confidence : k \in 1..Len(cands)} :
                    /\ \E k \in 1..Len(cands) :
                          /\ IsDuplicate(cands[k], cands[idxs[i]])
                          /\ cands[k].confidence = m
                    /\ \A k \in 1..Len(cands) :
                          IsDuplicate(cands[k], cands[idxs[i]])
                              => cands[k].confidence <= m]]

EventsOf(idxs, cands) == [i \in 1..Len(idxs) |-> cands[idxs[i]]]

-----------------------------------------------------------------------------
(* Responses (design section 6) *)

NoResponse == [status |-> "none"]

SuccessResponse(events) == [status |-> "success", failures |-> events]

ErrorResponseWithFailures(category, detail) ==
    [status |-> category, detail |-> detail, failures |-> <<>>]

ErrorResponse(category, detail) == [status |-> category, detail |-> detail]

-----------------------------------------------------------------------------
(* Uploads: one valid, one with an unsupported container, one unreadable,  *)
(* one longer than five minutes.                                           *)

Upload(ext, readable, duration) ==
    [ext |-> ext, readable |-> readable, duration |-> duration]

Uploads ==
    { Upload("mp4", TRUE, 60), Upload("avi", TRUE, 60),
      Upload("mov", FALSE, 60), Upload("webm", TRUE, 301) }

TempPathsUploadOnly == {"upload"}

TempPaths == {"upload", "wav"}

ErrorCategory(err) ==
    IF err = "MediaError" THEN "client_error" ELSE "server_error"

-----------------------------------------------------------------------------
(* Web client (web/src/app): the page component's state and inputs *)

MAX_SIZE_MB == 500

PIPELINE_STEPS ==
    <<"Extracting audio from video", "Transcribing narration",
      "Scanning for failure signals", "Analyzing with AI",
      "Deduplicating results">>

\* The extensions handleFile lets through.
ClientFormats == {<<"m","p","4">>, <<"m","o","v">>, <<"w","e","b","m">>}

\* null, as a file and as a JSON value.
NoFile == [kind |-> "null"]
JsonNull == [json |-> "null"]

File(name, size) == [kind |-> "file", name |-> name, size |-> size]

\* Position of the last "." of a name, 0 if it has none.
LastDot(name) ==
    IF \E i \in 1..Len(name) : name[i] = "."
    THEN CHOOSE i \in 1..Len(name) :
             name[i] = "." /\ \A j \in (i + 1)..Len(name) : name[j] # "."
    ELSE 0

\* f.name.split(".").pop()?.toLowerCase(): the last dot-separated part of
\* the name, which is the whole name when it has no dot.
ExtOf(name) == LowerText(SubSeq(name, LastDot(name) + 1, Len(name)))

\* File names: a.mp4, A.MOV, a.b.webm, a.avi, mp4 (no extension), a.mp4.
FileNames ==
    { <<"a",".","m","p","4">>,
      <<"A",".","M","O","V">>,
      <<"a",".","b",".","w","e","b","m">>,
      <<"a",".","a","v","i">>,
      <<"m","p","4">>,
      <<"a",".","m","p","4",".">> }

\* One small file, one of exactly the maximum size, one a byte larger.
FileSizes ==
    {1024, MAX_SIZE_MB * 1024 * 1024, MAX_SIZE_MB * 1024 * 1024 + 1}

Files == {File(n, s) : n \in FileNames, s \in FileSizes}

MsgUnsupported == "Unsupported format. Please upload MP4, MOV, or WebM."
MsgTooLarge == "File too large. Max is 500 MB."

\* HTTP response bodies: an AnalyzeResponse, the JSON value null, a JSON
\* object with and without a detail, and bytes that are not JSON.
AnalyzeBody(failures) == [json |-> "object", failures |-> failures]
DetailBody(detail) == [json |-> "object", detail |-> detail]
NotJson == [json |-> "unparseable"]

OkBodies ==
    { AnalyzeBody(<<>>),
      AnalyzeBody(<<ToEvent(RawEvent(0, TitleSubmit, 50, "ok"))>>),
      JsonNull,
      NotJson }

ErrorBodies ==
    { DetailBody("Unsupported media"), DetailBody(""), JsonNull, NotJson }

HttpResponse(ok, status, statusText, body) ==
    [ok |-> ok, status |-> status, statusText |-> statusText, body |-> body]

NoHttpResponse == [ok |-> FALSE, status |-> "none"]

HttpResponses ==
    {HttpResponse(TRUE, "200", "OK", b) : b \in OkBodies}
    \cup {HttpResponse(FALSE, "400", t, b) :
             t \in {"", "Bad Request"}, b \in ErrorBodies}

\* The message of the exception fetch rejects with.
MsgFetchFailed == "Failed to fetch"
\* The message of the SyntaxError res.json() rejects with.
MsgNotJson == "Unexpected token"
\* The message of the TypeError that reading a property of null throws.
MsgNullDetail == "Cannot read properties of null"

\* The page as first rendered, and as reset leaves it.
ClientIdle ==
    /\ state = "idle"
    /\ file = NoFile
    /\ result = JsonNull
    /\ errorMsg = ""
    /\ copied = FALSE
    /\ showJson = FALSE
    /\ activeStep = 0
    /\ dragover = FALSE
    /\ stepInterval = FALSE
    /\ pc = "none"
    /\ res = NoHttpResponse
    /\ sent = NoFile
    /\ copyTimers = 0

-----------------------------------------------------------------------------
(* Orchestrator *)

Init ==
    /\ upload \in Uploads
    /\ stage = "received"
    /\ tempFiles = {}
    /\ cleaned = FALSE
    /\ transcript = <<>>
    /\ candIdx = <<>>
    /\ windows = <<>>
    /\ wcur = 0
    /\ calls = <<>>
    /\ wstatus = <<>>
    /\ lastResponse = NoCall
    /\ rawAccepted = <<>>
    /\ results = <<>>
    /\ candidates = <<>>
    /\ mcur = 0
    /\ accepted = <<>>
    /\ lostTo = <<>>
    /\ sorted = <<>>
    /\ error = "none"
    /\ response = NoResponse
    /\ completed = <<>>
    /\ vanished = {}
    /\ ClientIdle

\* Step 1: save the upload to a temp path.
SaveUpload ==
    /\ stage = "received"
    /\ "upload" \notin tempFiles
    /\ tempFiles' = tempFiles \cup {"upload"}
    /\ UNCHANGED <<cvars, vanished, completed, lastResponse, upload, stage, cleaned, transcript, candIdx, windows, wcur,
                   calls, wstatus, rawAccepted, results, candidates, mcur,
                   accepted, lostTo, sorted, error, response>>

\* The audio extractor takes the input: a supported container, readable, and
\* within the duration limit.
MediaOk(u) ==
    /\ u.ext \in SupportedContainers
    /\ u.readable
    /\ u.duration <= MaxDurationSeconds

\* Step 2: ffmpeg -> mono 16 kHz WAV; MediaError on unsupported, unreadable
\* or over-long input, which may leave a partly written waveform behind.
ExtractAudio ==
    /\ stage = "received"
    /\ "upload" \in tempFiles
    /\ IF MediaOk(upload)
       THEN /\ tempFiles' = tempFiles \cup {"wav"}
            /\ stage' = "audio_extracted"
            /\ UNCHANGED error
       ELSE /\ \E partial \in BOOLEAN :
                  tempFiles' = IF partial THEN tempFiles \cup {"wav"} ELSE tempFiles
            /\ stage' = "failed"
            /\ error' = "MediaError"
    /\ UNCHANGED <<cvars, vanished, completed, lastResponse, upload, cleaned, transcript, candIdx, windows, wcur, calls,
                   wstatus, rawAccepted, results, candidates, mcur, accepted,
                   lostTo, sorted, response>>

\* Step 3: transcribe; an empty transcript is a normal result.
Transcribe ==
    /\ stage = "audio_extracted"
    /\ transcript' \in Transcripts
    /\ stage' = "transcribed"
    /\ UNCHANGED <<cvars, vanished, completed, lastResponse, upload, tempFiles, cleaned, candIdx, windows, wcur, calls,
                   wstatus, rawAccepted, results, candidates, mcur, accepted,
                   lostTo, sorted, error, response>>

TranscribeFails ==
    /\ stage = "audio_extracted"
    /\ stage' = "failed"
    /\ error' = "TranscriptionError"
    /\ UNCHANGED <<cvars, vanished, completed, lastResponse, upload, tempFiles, cleaned, transcript, candIdx, windows,
                   wcur, calls, wstatus, rawAccepted, results, candidates, mcur,
                   accepted, lostTo, sorted, response>>

\* As Detect, but a transcript without candidates goes straight to the
\* response stages.
DetectSkipsWhenEmpty ==
    /\ stage = "transcribed"
    /\ candIdx' = DetectCandidates(transcript)
    /\ stage' = IF candIdx' = <<>> THEN "sorted" ELSE "candidates_detected"
    /\ UNCHANGED <<cvars, vanished, completed, lastResponse, upload, tempFiles, cleaned, transcript, windows, wcur, calls,
                   wstatus, rawAccepted, results, candidates, mcur, accepted,
                   lostTo, sorted, error, response>>

\* Step 4.
Detect ==
    /\ stage = "transcribed"
    /\ candIdx' = DetectCandidates(transcript)
    /\ stage' = "candidates_detected"
    /\ UNCHANGED <<cvars, vanished, completed, lastResponse, upload, tempFiles, cleaned, transcript, windows, wcur, calls,
                   wstatus, rawAccepted, results, candidates, mcur, accepted,
                   lostTo, sorted, error, response>>

\* Step 5.
Windowing ==
    /\ stage = "candidates_detected"
    /\ wcur = 0
    /\ windows' = BuildWindows(transcript, candIdx)
    /\ wcur' = 1
    /\ calls' = [w \in 1..Len(windows') |-> <<>>]
    /\ wstatus' = [w \in 1..Len(windows') |-> "pending"]
    /\ rawAccepted' = [w \in 1..Len(windows') |-> <<>>]
    /\ results' = [w \in 1..Len(windows') |-> <<>>]
    /\ UNCHANGED <<cvars, vanished, completed, lastResponse, upload, stage, tempFiles, cleaned, transcript, candIdx,
                   candidates, mcur, accepted, lostTo, sorted, error, response>>

\* Steps 6 and 7: what becomes of a window after a call, given the number of
\* calls made before it: one initial call, one repair call, then skip.
AfterAttemptThirdCall(before, valid) ==
    IF valid THEN "done"
    ELSE IF before + 1 > MaxAttempts THEN "skipped"
    ELSE "pending"

AfterAttempt(before, valid) ==
    IF valid THEN "done"
    ELSE IF before + 1 >= MaxAttempts THEN "skipped"
    ELSE "pending"

\* As ExtractCall, but a window that fails both attempts raises.
ExtractCallAborts ==
    /\ stage = "candidates_detected"
    /\ wcur \in 1..Len(windows)
    /\ \E r \in BackendResponses :
         LET valid == ResponseValid(r)
             st == AfterAttempt(Len(calls[wcur]), valid)
         IN  /\ lastResponse' = r
             /\ calls' = [calls EXCEPT ![wcur] = Append(@, valid)]
             /\ wstatus' = [wstatus EXCEPT ![wcur] = st]
             /\ rawAccepted' = IF valid
                               THEN [rawAccepted EXCEPT ![wcur] = r.payload]
                               ELSE rawAccepted
             /\ results' = IF valid
                           THEN [results EXCEPT
                                   ![wcur] = WindowEvents(r.payload, upload.duration)]
                           ELSE results
             /\ completed' = IF st = "pending" THEN completed
                             ELSE Append(completed, wcur)
             /\ wcur' = IF st = "pending" THEN wcur ELSE wcur + 1
             /\ stage' = IF st = "skipped" THEN "failed" ELSE stage
             /\ error' = IF st = "skipped" THEN "ExtractionError" ELSE error
    /\ UNCHANGED <<cvars, vanished, upload, tempFiles, cleaned, transcript, candIdx,
                   windows, candidates, mcur, accepted, lostTo, sorted,
                   response>>

\* One backend call for the current window (the initial one or the repair).
ExtractCall ==
    /\ stage = "candidates_detected"
    /\ wcur \in 1..Len(windows)
    /\ \E r \in BackendResponses :
         LET valid == ResponseValid(r)
             st == AfterAttempt(Len(calls[wcur]), valid)
         IN  /\ lastResponse' = r
             /\ calls' = [calls EXCEPT ![wcur] = Append(@, valid)]
             /\ wstatus' = [wstatus EXCEPT ![wcur] = st]
             /\ rawAccepted' = IF valid
                               THEN [rawAccepted EXCEPT ![wcur] = r.payload]
                               ELSE rawAccepted
             /\ results' = IF valid
                           THEN [results EXCEPT
                                   ![wcur] = WindowEvents(r.payload, upload.duration)]
                           ELSE results
             /\ completed' = IF st = "pending" THEN completed
                             ELSE Append(completed, wcur)
             /\ wcur' = IF st = "pending" THEN wcur ELSE wcur + 1
    /\ UNCHANGED <<cvars, vanished, upload, stage, tempFiles, cleaned, transcript, candIdx,
                   windows, candidates, mcur, accepted, lostTo, sorted, error,
                   response>>

FinishExtraction ==
    /\ stage = "candidates_detected"
    /\ wcur = Len(windows) + 1
    /\ candidates' = Concat(results)
    /\ lastResponse' = NoCall
    /\ lostTo' = [c \in 1..Len(Concat(results)) |-> 0]
    /\ mcur' = 1
    /\ stage' = "windows_extracted"
    /\ UNCHANGED <<cvars, vanished, completed, upload, tempFiles, cleaned, transcript, candIdx, windows,
                   wcur, calls, wstatus, rawAccepted, results, accepted, sorted,
                   error, response>>

\* Step 8: the merger takes the candidates one at a time, in order.
MergeStep ==
    /\ stage = "windows_extracted"
    /\ mcur \in 1..Len(candidates)
    /\ accepted' = MergeOne(accepted, candidates, mcur)
    /\ lostTo' =
         IF DuplicateSlots(accepted, candidates, mcur) = {} THEN lostTo
         ELSE LET old == accepted[FirstDuplicateSlot(accepted, candidates, mcur)]
              IN  IF mcur \in Range(accepted')
                  THEN [lostTo EXCEPT ![old] = mcur]
                  ELSE [lostTo EXCEPT ![mcur] = old]
    /\ mcur' = mcur + 1
    /\ UNCHANGED <<cvars, vanished, completed, lastResponse, upload, stage, tempFiles, cleaned, transcript, candIdx,
                   windows, wcur, calls, wstatus, rawAccepted, results,
                   candidates, sorted, error, response>>

FinishMerge ==
    /\ stage = "windows_extracted"
    /\ mcur = Len(candidates) + 1
    /\ stage' = "merged"
    /\ UNCHANGED <<cvars, vanished, completed, lastResponse, upload, tempFiles, cleaned, transcript, candIdx, windows,
                   wcur, calls, wstatus, rawAccepted, results, candidates, mcur,
                   accepted, lostTo, sorted, error, response>>

\* Step 9.
Sort ==
    /\ stage = "merged"
    /\ sorted' = SortByTimestamp(accepted, candidates)
    /\ stage' = "sorted"
    /\ UNCHANGED <<cvars, vanished, completed, lastResponse, upload, tempFiles, cleaned, transcript, candIdx, windows,
                   wcur, calls, wstatus, rawAccepted, results, candidates, mcur,
                   accepted, lostTo, error, response>>

\* A temp file is removed by something else before cleanup gets to it.
TempFileVanishes ==
    /\ stage \in {"sorted", "failed"}
    /\ ~cleaned
    /\ \E f \in tempFiles :
         /\ tempFiles' = tempFiles \ {f}
         /\ vanished' = vanished \cup {f}
    /\ UNCHANGED <<cvars, completed, lastResponse, upload, stage, cleaned, transcript, candIdx, windows,
                   wcur, calls, wstatus, rawAccepted, results, candidates, mcur,
                   accepted, lostTo, sorted, error, response>>

\* As CleanupOutcome, but a failed release fails the request.
CleanupOutcomeEscalates(outcome, failedReleases) ==
    IF failedReleases = {} THEN outcome
    ELSE [stage |-> "failed", error |-> "CleanupError"]

\* The request's outcome after cleanup, given the outcome before it and the
\* paths whose release failed: failures are logged, the outcome stays.
CleanupOutcome(outcome, failedReleases) == outcome

\* Step 10: runs on the success path and on every failure path. Every
\* tracked path is released; releasing a path that is gone fails.
Cleanup ==
    /\ stage \in {"sorted", "failed"}
    /\ ~cleaned
    /\ tempFiles' = tempFiles \ TempPaths
    /\ cleaned' = TRUE
    /\ LET after == CleanupOutcome([stage |-> stage, error |-> error],
                                   vanished \cap TempPaths)
       IN  stage' = after.stage /\ error' = after.error
    /\ UNCHANGED <<cvars, vanished, completed, lastResponse, upload, transcript, candIdx, windows, wcur,
                   calls, wstatus, rawAccepted, results, candidates, mcur,
                   accepted, lostTo, sorted, response>>

Respond ==
    /\ stage = "sorted"
    /\ cleaned
    /\ response' = SuccessResponse(EventsOf(sorted, candidates))
    /\ stage' = "responded"
    /\ UNCHANGED <<cvars, vanished, completed, lastResponse, upload, tempFiles, cleaned, transcript, candIdx, windows,
                   wcur, calls, wstatus, rawAccepted, results, candidates, mcur,
                   accepted, lostTo, sorted, error>>

ReturnError ==
    /\ stage = "failed"
    /\ cleaned
    /\ response = NoResponse
    /\ response' = ErrorResponse(ErrorCategory(error), error)
    /\ UNCHANGED <<cvars, vanished, completed, lastResponse, upload, stage, tempFiles, cleaned, transcript, candIdx,
                   windows, wcur, calls, wstatus, rawAccepted, results,
                   candidates, mcur, accepted, lostTo, sorted, error>>

Next ==
    \/ SaveUpload
    \/ ExtractAudio
    \/ Transcribe
    \/ TranscribeFails
    \/ Detect
    \/ Windowing
    \/ ExtractCall
    \/ FinishExtraction
    \/ MergeStep
    \/ FinishMerge
    \/ Sort
    \/ TempFileVanishes
    \/ Cleanup
    \/ Respond
    \/ ReturnError

Spec == Init /\ [][Next]_vars

-----------------------------------------------------------------------------
(* Concurrent extraction (design 5): the per-window calls are in flight    *)
(* together, so any pending window may be the next to get an answer, and   *)
(* the windows finish in any order. The results are then collected.        *)

\* One backend call (initial or repair) of any window still pending.
ExtractCallConcurrent ==
    /\ stage = "candidates_detected"
    /\ wcur = 1
    /\ \E w \in 1..Len(windows) : \E r \in BackendResponses :
         LET valid == ResponseValid(r)
             st == AfterAttempt(Len(calls[w]), valid)
         IN  /\ wstatus[w] = "pending"
             /\ calls' = [calls EXCEPT ![w] = Append(@, valid)]
             /\ wstatus' = [wstatus EXCEPT ![w] = st]
             /\ rawAccepted' = IF valid
                               THEN [rawAccepted EXCEPT ![w] = r.payload]
                               ELSE rawAccepted
             /\ results' = IF valid
                           THEN [results EXCEPT
                                   ![w] = WindowEvents(r.payload, upload.duration)]
                           ELSE results
             /\ completed' = IF st = "pending" THEN completed
                             ELSE Append(completed, w)
    /\ UNCHANGED <<cvars, vanished, lastResponse, upload, stage, tempFiles, cleaned, transcript,
                   candIdx, windows, wcur, candidates, mcur, accepted, lostTo,
                   sorted, error, response>>

\* The per-window results in the order the windows finished.
CollectInCompletionOrder(perWindow, done) ==
    Concat([k \in 1..Len(done) |-> perWindow[done[k]]])

\* The per-window results in the original candidate order.
CollectInOrder(perWindow, done) == Concat(perWindow)

\* All windows have finished: hand the results to the merger.
CollectResults ==
    /\ stage = "candidates_detected"
    /\ wcur = 1
    /\ \A w \in 1..Len(windows) : wstatus[w] # "pending"
    /\ candidates' = CollectInOrder(results, completed)
    /\ lostTo' = [c \in 1..Len(candidates') |-> 0]
    /\ mcur' = 1
    /\ wcur' = Len(windows) + 1
    /\ stage' = "windows_extracted"
    /\ UNCHANGED <<cvars, vanished, completed, lastResponse, upload, tempFiles, cleaned, transcript,
                   candIdx, windows, calls, wstatus, rawAccepted, results,
                   accepted, sorted, error, response>>

ConcNext ==
    \/ SaveUpload
    \/ ExtractAudio
    \/ Transcribe
    \/ TranscribeFails
    \/ Detect
    \/ Windowing
    \/ ExtractCallConcurrent
    \/ CollectResults
    \/ MergeStep
    \/ FinishMerge
    \/ Sort
    \/ Cleanup
    \/ Respond
    \/ ReturnError

ConcSpec == Init /\ [][ConcNext]_vars

-----------------------------------------------------------------------------
(* The merger and the final sort on their own: the pipeline taken up at    *)
(* windows_extracted, with every candidate list up to MaxCands long that   *)
(* one window's validated response can hold.                               *)

MergeTimeVals == {0, 30, 31}
MergeConfVals == {50, 90}

MergeRawEvents ==
    {RawEvent(t, ti, c, "ok") : t \in MergeTimeVals, ti \in Titles, c \in MergeConfVals}

MergeInit ==
    /\ upload = Upload("mp4", TRUE, 60)
    /\ stage = "windows_extracted"
    /\ tempFiles = TempPaths
    /\ cleaned = FALSE
    /\ transcript = <<Segment(0, TextBugs)>>
    /\ candIdx = DetectCandidates(transcript)
    /\ windows = BuildWindows(transcript, candIdx)
    /\ wcur = 2
    /\ calls = <<(<<TRUE>>)>>
    /\ wstatus = <<"done">>
    /\ lastResponse = NoCall
    /\ rawAccepted \in {<<p>> : p \in SeqsUpTo(MergeRawEvents, MaxCands)}
    /\ results = <<WindowEvents(rawAccepted[1], upload.duration)>>
    /\ candidates = Concat(results)
    /\ mcur = 1
    /\ accepted = <<>>
    /\ lostTo = [c \in 1..Len(candidates) |-> 0]
    /\ sorted = <<>>
    /\ error = "none"
    /\ response = NoResponse
    /\ completed = <<>>
    /\ vanished = {}
    /\ ClientIdle

MergeNext ==
    \/ MergeStep
    \/ FinishMerge
    \/ Sort
    \/ Cleanup
    \/ Respond

MergeSpec == MergeInit /\ [][MergeNext]_vars

-----------------------------------------------------------------------------
(* Web client: event handlers.  analyze is asynchronous: it runs up to     *)
(* the fetch, resumes when the fetch settles, and resumes once more when   *)
(* the body has been read.                                                 *)

\* handleFile (layout.tsx 86-102).
HandleFile(f) ==
    IF ExtOf(f.name) \notin ClientFormats
    THEN /\ errorMsg' = MsgUnsupported
         /\ state' = "error"
         /\ UNCHANGED <<file, result>>
    ELSE IF f.size > MAX_SIZE_MB * 1024 * 1024
    THEN /\ errorMsg' = MsgTooLarge
         /\ state' = "error"
         /\ UNCHANGED <<file, result>>
    ELSE /\ file' = f
         /\ state' = "selected"
         /\ errorMsg' = ""
         /\ result' = JsonNull

\* The upload zone exists in the idle state only.
OnDragOver ==
    /\ state = "idle"
    /\ dragover' = TRUE
    /\ UNCHANGED <<state, file, result, errorMsg, copied, showJson, activeStep,
                   stepInterval, pc, res, sent, copyTimers, pvars>>

OnDragLeave ==
    /\ state = "idle"
    /\ dragover' = FALSE
    /\ UNCHANGED <<state, file, result, errorMsg, copied, showJson, activeStep,
                   stepInterval, pc, res, sent, copyTimers, pvars>>

OnDrop ==
    /\ state = "idle"
    /\ dragover' = FALSE
    /\ \E f \in Files : HandleFile(f)
    /\ UNCHANGED <<copied, showJson, activeStep, stepInterval, pc, res, sent,
                   copyTimers, pvars>>

OnFileInput ==
    /\ state = "idle"
    /\ \E f \in Files : HandleFile(f)
    /\ UNCHANGED <<copied, showJson, activeStep, dragover, stepInterval, pc,
                   res, sent, copyTimers, pvars>>

\* analyze up to its first await: the button exists in the selected state
\* with a file held; the handler returns at once without a file.
Analyze ==
    /\ state = "selected"
    /\ file # NoFile
    /\ state' = "analyzing"
    /\ activeStep' = 0
    /\ result' = JsonNull
    /\ errorMsg' = ""
    /\ stepInterval' = TRUE
    /\ sent' = file
    /\ pc' = "fetching"
    /\ UNCHANGED <<file, copied, showJson, dragover, res, copyTimers, pvars>>

\* The interval's callback.
Tick ==
    /\ stepInterval
    /\ activeStep' = Min(activeStep + 1, Len(PIPELINE_STEPS) - 1)
    /\ UNCHANGED <<state, file, result, errorMsg, copied, showJson, dragover,
                   stepInterval, pc, res, sent, copyTimers, pvars>>

\* As FetchFails, but the catch block leaves the interval running.
FetchFailsKeepsInterval ==
    /\ pc = "fetching"
    /\ errorMsg' = MsgFetchFailed
    /\ state' = "error"
    /\ pc' = "none"
    /\ UNCHANGED <<file, result, copied, showJson, activeStep, dragover,
                   stepInterval, res, sent, copyTimers, pvars>>

\* fetch rejects (network failure): the catch block.
FetchFails ==
    /\ pc = "fetching"
    /\ stepInterval' = FALSE
    /\ errorMsg' = MsgFetchFailed
    /\ state' = "error"
    /\ pc' = "none"
    /\ UNCHANGED <<file, result, copied, showJson, activeStep, dragover, res,
                   sent, copyTimers, pvars>>

\* fetch resolves with a response: the interval is cleared and the body is
\* awaited, on both branches.
FetchResponds ==
    /\ pc = "fetching"
    /\ res' \in HttpResponses
    /\ stepInterval' = FALSE
    /\ pc' = "reading"
    /\ UNCHANGED <<state, file, result, errorMsg, copied, showJson, activeStep,
                   dragover, sent, copyTimers, pvars>>

\* body.detail || `HTTP ${res.status}` for the body of a non-ok response,
\* where an unparseable body stands for {detail: res.statusText}.
ErrorDetail(r) ==
    LET detail == IF r.body = NotJson THEN r.statusText ELSE r.body.detail
    IN  IF detail # "" THEN detail ELSE "HTTP " \o r.status

\* res.json() has settled: the rest of analyze.
BodySettles ==
    /\ pc = "reading"
    /\ IF ~res.ok
       THEN /\ errorMsg' = IF res.body = JsonNull THEN MsgNullDetail
                           ELSE ErrorDetail(res)
            /\ state' = "error"
            /\ UNCHANGED result
       ELSE IF res.body = NotJson
       THEN /\ errorMsg' = MsgNotJson
            /\ state' = "error"
            /\ UNCHANGED result
       ELSE /\ result' = res.body
            /\ state' = "done"
            /\ UNCHANGED errorMsg
    /\ stepInterval' = FALSE
    /\ pc' = "none"
    /\ res' = NoHttpResponse
    /\ UNCHANGED <<file, copied, showJson, activeStep, dragover, sent,
                   copyTimers, pvars>>

\* The results view, with its buttons, is rendered for a result that is
\* not null.
ResultsShown == state = "done" /\ result # JsonNull

\* copyJson: the button is in the results view.
CopyJson ==
    /\ ResultsShown
    /\ copyTimers < MaxCopyTimers
    /\ copied' = TRUE
    /\ copyTimers' = copyTimers + 1
    /\ UNCHANGED <<state, file, result, errorMsg, showJson, activeStep,
                   dragover, stepInterval, pc, res, sent, pvars>>

\* The timeout copyJson set.
CopiedTimeout ==
    /\ copyTimers > 0
    /\ copied' = FALSE
    /\ copyTimers' = copyTimers - 1
    /\ UNCHANGED <<state, file, result, errorMsg, showJson, activeStep,
                   dragover, stepInterval, pc, res, sent, pvars>>

ToggleJson ==
    /\ ResultsShown
    /\ showJson' = ~showJson
    /\ UNCHANGED <<state, file, result, errorMsg, copied, activeStep, dragover,
                   stepInterval, pc, res, sent, copyTimers, pvars>>

\* reset: Remove (selected), Try Again (error), New Upload (results view).
Reset ==
    /\ \/ state = "selected" /\ file # NoFile
       \/ state = "error"
       \/ ResultsShown
    /\ file' = NoFile
    /\ result' = JsonNull
    /\ errorMsg' = ""
    /\ state' = "idle"
    /\ copied' = FALSE
    /\ showJson' = FALSE
    /\ activeStep' = 0
    /\ UNCHANGED <<dragover, stepInterval, pc, res, sent, copyTimers, pvars>>

ClientInit ==
    /\ upload = Upload("mp4", TRUE, 60)
    /\ Init

ClientNext ==
    \/ OnDragOver
    \/ OnDragLeave
    \/ OnDrop
    \/ OnFileInput
    \/ Analyze
    \/ Tick
    \/ FetchFails
    \/ FetchResponds
    \/ BodySettles
    \/ CopyJson
    \/ CopiedTimeout
    \/ ToggleJson
    \/ Reset

ClientSpec == ClientInit /\ [][ClientNext]_vars

-----------------------------------------------------------------------------
(* Properties *)

AllInvalid(w) == \A i \in 1..Len(calls[w]) : ~calls[w][i]

\* C1 (retry bound): no window ever gets a third backend call; a window
\* whose every call came back invalid and that the engine has left behind
\* got exactly 2 calls (the initial one and one repair), contributes no
\* event, and raised nothing: no fatal error is recorded for the request.
RetryBound ==
    \A w \in 1..Len(calls) :
        /\ Len(calls[w]) <= 2
        /\ (AllInvalid(w) /\ (wcur > w \/ wstatus[w] # "pending")) =>
              /\ Len(calls[w]) = 2
              /\ wstatus[w] = "skipped"
              /\ results[w] = <<>>
              /\ rawAccepted[w] = <<>>
              /\ error = "none"
              /\ stage # "failed"

RetryBoundWitness ==
    /\ stage = "responded"
    /\ \E w \in 1..Len(calls) : wstatus[w] = "skipped" /\ Len(calls[w]) = 2

\* What the windows that were not skipped contribute, in window order.
RECURSIVE KeptPayloads(_)
KeptPayloads(w) ==
    IF w = 0 THEN <<>>
    ELSE IF wstatus[w] = "done"
         THEN Append(KeptPayloads(w - 1), rawAccepted[w])
         ELSE KeptPayloads(w - 1)

KeptCandidates ==
    Concat([k \in 1..Len(KeptPayloads(Len(wstatus))) |->
               WindowEvents(KeptPayloads(Len(wstatus))[k], upload.duration)])

\* C2 (a failing window never aborts the request): once some window has
\* failed both attempts, the request is never in failed; the candidates
\* handed to the merger are exactly those of the pipeline run on the other
\* windows alone, the pipeline stops nowhere but in responded, and the
\* response, once given, is the success payload computed from them.
FailingWindowNonFatal ==
    (\E w \in 1..Len(wstatus) : wstatus[w] = "skipped") =>
        /\ stage # "failed"
        /\ error = "none"
        /\ stage \in {"windows_extracted", "merged", "sorted", "responded"} =>
              candidates = KeptCandidates
        /\ ~ENABLED Next => stage = "responded"
        /\ response # NoResponse =>
              /\ stage = "responded"
              /\ response =
                   SuccessResponse(
                     EventsOf(SortByTimestamp(MergeEvents(KeptCandidates),
                                              KeptCandidates),
                              KeptCandidates))

FailingWindowWitness ==
    /\ stage = "responded"
    /\ \E w1, w2 \in 1..Len(wstatus) :
          wstatus[w1] = "skipped" /\ wstatus[w2] = "done" /\ results[w2] # <<>>
    /\ response.failures # <<>>

\* C3 (cleanup guarantee): once the caller has its response, success or
\* error, no temporary file exists; nor does one in responded.
CleanupGuarantee ==
    (response # NoResponse \/ stage = "responded") => tempFiles = {}

CleanupWitness ==
    /\ response # NoResponse
    /\ error = "TranscriptionError"
    /\ tempFiles = {}

\* The duplicate predicate of the design, spelled out: at most 30 seconds
\* apart and titles sharing at least half of their words.
SameFailure(e1, e2) ==
    /\ e1.timestamp_seconds - e2.timestamp_seconds <= 30
    /\ e2.timestamp_seconds - e1.timestamp_seconds <= 30
    /\ 2 * Cardinality(e1.title \cap e2.title) >= Cardinality(e1.title \cup e2.title)

DuplicateResolution ==
    [][\A d \in 1..Len(lostTo) :
          (Len(lostTo') = Len(lostTo) /\ lostTo[d] = 0 /\ lostTo'[d] # 0) =>
              LET k == lostTo'[d]
              IN  /\ SameFailure(candidates[k], candidates[d])
                  /\ k \in Range(accepted')
                  /\ d \notin Range(accepted')
                  /\ \/ candidates[k].confidence > candidates[d].confidence
                     \/ /\ candidates[k].confidence = candidates[d].confidence
                        /\ k < d]_vars

\* A later candidate has replaced an accepted one, and a tie has been
\* resolved for the earlier one.
DuplicateResolutionWitness ==
    \E d1, d2 \in 1..Len(lostTo) :
        /\ lostTo[d1] > d1
        /\ lostTo[d2] # 0 /\ lostTo[d2] < d2
        /\ candidates[lostTo[d2]].confidence = candidates[d2].confidence

\* C6 (non-duplicate preservation): the merger drops a candidate only for
\* one at most 30 seconds away whose title is similar; and two candidates
\* that are not duplicates of each other, neither of which has a duplicate
\* among the other candidates, are both in the merged list, the sorted list
\* and the response.
NonDuplicatePreservation ==
    /\ \A d \in 1..Len(lostTo) :
          lostTo[d] # 0 => SameFailure(candidates[lostTo[d]], candidates[d])
    /\ \A i, j \in 1..Len(candidates) :
          (/\ i # j
           /\ ~SameFailure(candidates[i], candidates[j])
           /\ \A k \in 1..Len(candidates) :
                 (k # i /\ k # j) =>
                     /\ ~SameFailure(candidates[k], candidates[i])
                     /\ ~SameFailure(candidates[k], candidates[j])) =>
              /\ stage \in {"merged", "sorted", "responded"} =>
                    {i, j} \subseteq Range(accepted)
              /\ stage \in {"sorted", "responded"} =>
                    {i, j} \subseteq Range(sorted)
              /\ stage = "responded" =>
                    {candidates[i], candidates[j]} \subseteq Range(response.failures)

\* Two events 31 seconds apart with the same title and two events at the
\* same second with disjoint titles, all four in the response.
NonDuplicateWitness ==
    /\ stage = "responded"
    /\ \E i, j \in 1..Len(response.failures) :
          /\ response.failures[i].title = response.failures[j].title
          /\ response.failures[j].timestamp_seconds
               - response.failures[i].timestamp_seconds > 30
    /\ \E i, j \in 1..Len(response.failures) :
          /\ response.failures[i].timestamp_seconds
               = response.failures[j].timestamp_seconds
          /\ response.failures[i].title \cap response.failures[j].title = {}

PositionIn(s, x) == CHOOSE p \in 1..Len(s) : s[p] = x

FatalErrors == {"MediaError", "TranscriptionError"}

\* C8 (empty transcript): when the transcriber has returned the empty
\* sequence, there are no candidates, no windows and no extraction backend
\* call, the request is not in failed, and the response, once given, is the
\* success payload with an empty failures list.
EmptyTranscript ==
    (/\ transcript = <<>>
     /\ stage \notin {"received", "audio_extracted"}
     /\ error \notin FatalErrors) =>
        /\ stage # "failed"
        /\ error = "none"
        /\ candIdx = <<>>
        /\ windows = <<>>
        /\ calls = <<>>
        /\ candidates = <<>>
        /\ response # NoResponse =>
              stage = "responded" /\ response = [status |-> "success", failures |-> <<>>]

EmptyTranscriptWitness ==
    /\ transcript = <<>>
    /\ stage = "responded"
    /\ response.status = "success"

\* C9 (single well-formed response): a response, once given, never changes;
\* it is either the success payload, given in responded with no fatal error,
\* whose only content is the sorted merge of all candidates, or an error,
\* given in failed, whose only content is the category and detail of the
\* fatal error; an error carries no failures list.
SingleWellFormedResponse ==
    /\ [](response # NoResponse =>
            \/ /\ response.status = "success"
               /\ DOMAIN response = {"status", "failures"}
               /\ stage = "responded"
               /\ error = "none"
               /\ response.failures =
                    EventsOf(SortByTimestamp(MergeEvents(candidates), candidates),
                             candidates)
            \/ /\ response.status \in {"client_error", "server_error"}
               /\ DOMAIN response = {"status", "detail"}
               /\ stage = "failed"
               /\ error \in FatalErrors
               /\ response.detail = error)
    /\ [][response # NoResponse => response' = response]_vars

\* A success response with events, given although a window was skipped.
SingleResponseWitness ==
    /\ response.status = "success"
    /\ Len(response.failures) >= 1
    /\ \E w \in 1..Len(wstatus) : wstatus[w] = "skipped"

\* C10 (confidence range): every event of a success response, and every
\* candidate, has a confidence within 0..1 and is, field for field, an
\* element of a backend payload that passed validation; no accepted payload
\* holds an event whose confidence is outside 0..1, and a backend answer
\* that holds one counts as a failed call that gives the window no event.
ConfidenceRange ==
    /\ \A w \in 1..Len(rawAccepted) : \A i \in 1..Len(rawAccepted[w]) :
          0 <= rawAccepted[w][i].confidence /\ rawAccepted[w][i].confidence <= 100
    /\ (\E i \in 1..Len(lastResponse.payload) :
           \/ lastResponse.payload[i].confidence < 0
           \/ lastResponse.payload[i].confidence > 100) =>
          \E w \in 1..Len(calls) :
              /\ w \in {wcur - 1, wcur}
              /\ calls[w][Len(calls[w])] = FALSE
              /\ results[w] = <<>>
    /\ \A e \in Range(candidates)
              \cup (IF response.status = "success"
                    THEN Range(response.failures) ELSE {}) :
          /\ 0 <= e.confidence /\ e.confidence <= 100
          /\ \E w \in 1..Len(rawAccepted) : \E i \in 1..Len(rawAccepted[w]) :
                /\ rawAccepted[w][i].confidence = e.confidence
                /\ rawAccepted[w][i].timestamp_seconds = e.timestamp_seconds
                /\ rawAccepted[w][i].title = e.title
                /\ rawAccepted[w][i].expected = e.expected
                /\ rawAccepted[w][i].actual = e.actual
                /\ rawAccepted[w][i].evidence = e.evidence

\* The backend's answer holds a well-formed event with confidence 1.5: the
\* call counts as failed and the window has no event from it.
ConfidenceRejectedWitness ==
    /\ \E i \in 1..Len(lastResponse.payload) :
          /\ lastResponse.payload[i].shape = "ok"
          /\ lastResponse.payload[i].confidence > 100
    /\ wcur \in 1..Len(calls)
    /\ calls[wcur] = <<FALSE>>
    /\ results[wcur] = <<>>

-----------------------------------------------------------------------------
(* The window builder on its own: the pipeline taken up at                 *)
(* candidates_detected, for every transcript of 1..MaxWinSegs segments.    *)

WindowTranscripts ==
    {[i \in 1..Len(ts) |-> Segment(i - 1, ts[i])] :
        ts \in SeqsUpTo(Texts, MaxWinSegs) \ {<<>>}}

WindowInit ==
    /\ upload = Upload("mp4", TRUE, 300)
    /\ stage = "candidates_detected"
    /\ tempFiles = TempPaths
    /\ cleaned = FALSE
    /\ transcript \in WindowTranscripts
    /\ candIdx = DetectCandidates(transcript)
    /\ windows = <<>>
    /\ wcur = 0
    /\ calls = <<>>
    /\ wstatus = <<>>
    /\ lastResponse = NoCall
    /\ rawAccepted = <<>>
    /\ results = <<>>
    /\ candidates = <<>>
    /\ mcur = 0
    /\ accepted = <<>>
    /\ lostTo = <<>>
    /\ sorted = <<>>
    /\ error = "none"
    /\ response = NoResponse
    /\ completed = <<>>
    /\ vanished = {}
    /\ ClientIdle

WindowNext == Windowing

WindowSpec == WindowInit /\ [][WindowNext]_vars

\* C11 (window boundaries): once the windows are built there is one per
\* candidate; the window of candidate idx in a transcript of N segments
\* holds exactly the segments max(0, idx-2) .. min(N-1, idx+2) in transcript
\* order, at most 5 of them, and its center_index, counted from the start
\* of the window, is the position of the candidate segment.
WindowBoundaries ==
    wcur >= 1 =>
        /\ Len(windows) = Len(candIdx)
        /\ \A w \in 1..Len(windows) :
              LET idx == candIdx[w]
                  n == Len(transcript)
                  lo == IF idx - 2 < 0 THEN 0 ELSE idx - 2
                  hi == IF idx + 2 > n - 1 THEN n - 1 ELSE idx + 2
                  win == windows[w]
              IN  /\ idx \in 0..(n - 1)
                  /\ Len(win.segments) = hi - lo + 1
                  /\ Len(win.segments) <= 5
                  /\ \A k \in 1..Len(win.segments) :
                        win.segments[k] = transcript[lo + k]
                  /\ win.center_index \in 0..(Len(win.segments) - 1)
                  /\ win.segments[win.center_index + 1] = transcript[idx + 1]

\* A full window of 5 in the middle, one cut at the start and one cut at the
\* end of the same transcript of 6 segments.
WindowBoundariesWitness ==
    /\ Len(transcript) = 6
    /\ \E w1, w2, w3 \in 1..Len(windows) :
          /\ Len(windows[w1].segments) = 5 /\ windows[w1].center_index = 2
          /\ candIdx[w2] = 0 /\ Len(windows[w2].segments) = 3
          /\ candIdx[w3] = 5 /\ windows[w3].center_index = 2
                             /\ Len(windows[w3].segments) = 3

\* What the request must return for the payloads accepted per window, taken
\* in the original candidate order.
InOrderCandidates ==
    Concat([w \in 1..Len(rawAccepted) |->
              WindowEvents(rawAccepted[w], upload.duration)])

\* C12 (order-independence under concurrent extraction): whatever the order
\* in which the windows' extractions finish, the merger is handed the
\* per-window results in the original candidate order, and the successful
\* response is the sorted merge of exactly that list: it is a function of
\* the transcript's windows and the payloads accepted for them, not of the
\* completion order.
OrderIndependence ==
    /\ stage \in {"windows_extracted", "merged", "sorted", "responded"}
          => /\ candidates = InOrderCandidates
             /\ Range(completed) = 1..Len(windows)
             /\ Len(completed) = Len(windows)
    /\ response.status = "success"
          => response.failures =
               EventsOf(SortByTimestamp(MergeEvents(InOrderCandidates),
                                        InOrderCandidates),
                        InOrderCandidates)

\* The second window finished before the first, both contributed events,
\* and the request has answered.
OrderIndependenceWitness ==
    /\ stage = "responded"
    /\ completed = <<2, 1>>
    /\ results[1] # <<>>
    /\ results[2] # <<>>
    /\ results[1] # results[2]
    /\ response.status = "success"

StageSuccessors ==
    {<<"received", "audio_extracted">>,
     <<"audio_extracted", "transcribed">>,
     <<"transcribed", "candidates_detected">>,
     <<"candidates_detected", "windows_extracted">>,
     <<"windows_extracted", "merged">>,
     <<"merged", "sorted">>,
     <<"sorted", "responded">>}

\* C13 (orchestrator stage order): the stage only ever moves to the next
\* stage of received, audio_extracted, transcribed, candidates_detected,
\* windows_extracted, merged, sorted, responded, or into failed, and into
\* failed only with a MediaError or TranscriptionError recorded. failed is
\* never left, a fatal error is recorded exactly in failed, and once the
\* request has failed no stage's data changes: no transcript, candidates,
\* windows, backend call, merge or sort is produced afterwards.
StageOrder ==
    [][/\ stage' # stage
           => \/ <<stage, stage'>> \in StageSuccessors
              \/ /\ stage' = "failed"
                 /\ stage # "responded"
                 /\ error = "none"
                 /\ error' \in FatalErrors
       /\ (error # "none") <=> (stage = "failed")
       /\ stage = "failed"
           => /\ stage' = "failed"
              /\ error' = error
              /\ UNCHANGED <<transcript, candIdx, windows, wcur, calls,
                             wstatus, lastResponse, rawAccepted, results,
                             candidates, mcur, accepted, lostTo, sorted,
                             completed>>]_vars

\* A request that failed in transcription, stayed failed through cleanup and
\* answered with the error, without a single backend call.
StageOrderWitness ==
    /\ stage = "failed"
    /\ error = "TranscriptionError"
    /\ cleaned
    /\ response = ErrorResponse("server_error", "TranscriptionError")
    /\ calls = <<>>

\* The window the answer held in lastResponse was given for.
LastCalled ==
    IF wcur \in 1..Len(calls) /\ calls[wcur] # <<>> THEN wcur ELSE wcur - 1

\* C14 (transport failures follow the retry policy): every window gets at
\* most 2 backend calls and a finished window 1 or 2; a valid first attempt
\* finishes the window with no repair call; a failed first attempt leaves
\* the window waiting for its repair call, which is made before extraction
\* ends; the repair attempt settles the window, as skipped when it failed.
\* An answer that is a timeout, a non-2xx status, a malformed envelope,
\* unparseable JSON or not an array counts as a failed attempt like a
\* validation failure: after it the window awaits its repair (first
\* attempt) or is skipped (repair attempt).
TransportRetryPolicy ==
    /\ \A w \in 1..Len(calls) :
          /\ Len(calls[w]) <= 2
          /\ wstatus[w] # "pending" => Len(calls[w]) \in {1, 2}
          /\ Len(calls[w]) >= 1 /\ calls[w][1]
                => Len(calls[w]) = 1 /\ wstatus[w] = "done"
          /\ Len(calls[w]) = 1 /\ ~calls[w][1]
                => wstatus[w] = "pending" /\ w = wcur
                   /\ stage = "candidates_detected"
          /\ Len(calls[w]) = 2
                => /\ ~calls[w][1]
                   /\ wstatus[w] = IF calls[w][2] THEN "done" ELSE "skipped"
          /\ wstatus[w] = "skipped" => results[w] = <<>>
    /\ stage \in {"windows_extracted", "merged", "sorted", "responded"}
          => \A w \in 1..Len(calls) : wstatus[w] # "pending"
    /\ lastResponse.kind \in FailureKinds
          \/ (\E i \in 1..Len(lastResponse.payload) :
                 lastResponse.payload[i].shape # "ok")
          => /\ LastCalled \in 1..Len(calls)
             /\ calls[LastCalled][Len(calls[LastCalled])] = FALSE
             /\ wstatus[LastCalled] =
                   IF Len(calls[LastCalled]) = 1 THEN "pending" ELSE "skipped"

\* A window whose first attempt failed and whose repair call timed out: two
\* calls, skipped.
TransportRetryWitness ==
    /\ lastResponse.kind = "timeout"
    /\ LastCalled \in 1..Len(calls)
    /\ calls[LastCalled] = <<FALSE, FALSE>>
    /\ wstatus[LastCalled] = "skipped"

\* C15 (cleanup failures are never escalated): the cleanup step changes
\* neither the stage, the recorded error nor the sorted result, also when
\* some temp file was already removed and its release failed, and it leaves
\* no temp file behind; afterwards a run that reached sorted can answer, and
\* every answer is the success payload of the sorted result or the error
\* that was raised before cleanup.
CleanupNeverEscalates ==
    /\ [][~cleaned /\ cleaned'
            => /\ stage' = stage
               /\ error' = error
               /\ sorted' = sorted
               /\ candidates' = candidates
               /\ tempFiles' = {}]_vars
    /\ [](/\ cleaned /\ stage = "sorted" => ENABLED Respond
          /\ cleaned /\ stage = "failed" /\ response = NoResponse
                => ENABLED ReturnError
          /\ response.status = "success"
                => /\ error = "none"
                   /\ response = SuccessResponse(EventsOf(sorted, candidates))
          /\ response.status \notin {"none", "success"}
                => /\ error \in FatalErrors
                   /\ response = ErrorResponse(ErrorCategory(error), error))

\* The upload's temp file was gone when cleanup ran, the waveform was
\* released all the same, and the request returned its events.
CleanupNeverEscalatesWitness ==
    /\ vanished = {"upload"}
    /\ cleaned
    /\ tempFiles = {}
    /\ response.status = "success"
    /\ Len(response.failures) >= 1

\* The positions of an accepted payload whose timestamp lies in the video.
InRangePositions(payload) ==
    {i \in 1..Len(payload) :
        /\ 0 <= payload[i].timestamp_seconds
        /\ payload[i].timestamp_seconds <= upload.duration}

\* C16 (timestamp range): every event a window contributes, every candidate
\* and every event of a success response has a timestamp within
\* 0..duration of the video; a window contributes exactly the in-range
\* events of its accepted payload, so an out-of-range event is dropped; and
\* a window whose accepted payload held one is done, not skipped, with no
\* error recorded for the request.
TimestampRange ==
    /\ \A e \in Range(Concat(results)) \cup Range(candidates)
              \cup (IF response.status = "success"
                    THEN Range(response.failures) ELSE {}) :
          0 <= e.timestamp_seconds /\ e.timestamp_seconds <= upload.duration
    /\ \A w \in 1..Len(rawAccepted) :
          /\ Len(results[w]) = Cardinality(InRangePositions(rawAccepted[w]))
          /\ \A i \in InRangePositions(rawAccepted[w]) :
                \E k \in 1..Len(results[w]) :
                    results[w][k] = ToEvent(rawAccepted[w][i])
          /\ InRangePositions(rawAccepted[w]) # 1..Len(rawAccepted[w])
                => wstatus[w] = "done" /\ error = "none" /\ stage # "failed"

\* The backend's valid answer for a window held an event at 61 s of a 60 s
\* video; the request answered with success and without it.
TimestampRangeWitness ==
    /\ \E w \in 1..Len(rawAccepted) : \E i \in 1..Len(rawAccepted[w]) :
          rawAccepted[w][i].timestamp_seconds > upload.duration
    /\ response.status = "success"
    /\ \E w \in 1..Len(results) : results[w] # <<>>

\* Equality in the six fields of a FailureEvent.
SameSixFields(a, b) ==
    /\ a.timestamp_seconds = b.timestamp_seconds
    /\ a.title = b.title
    /\ a.expected = b.expected
    /\ a.actual = b.actual
    /\ a.evidence = b.evidence
    /\ a.confidence = b.confidence

\* C17 (merger pass-through): the merger's accepted list only ever names
\* candidates emitted by the extraction engine, each at most once; the
\* candidates themselves never change; the sorted list is a rearrangement
\* of the accepted list; every event of the response equals, in all six
\* fields, an accepted candidate, with as many events as accepted
\* candidates; and in the step in which the merger looks at a candidate
\* that is a duplicate of no accepted event, that candidate is appended to
\* the accepted list.
MergerPassThrough ==
    /\ [](/\ candidates = WindowEvents(rawAccepted[1], upload.duration)
          /\ \A s \in 1..Len(accepted) : accepted[s] \in 1..Len(candidates)
          /\ \A s, t \in 1..Len(accepted) : s # t => accepted[s] # accepted[t]
          /\ Len(accepted) <= Len(candidates)
          /\ stage \in {"sorted", "responded"}
                => /\ Len(sorted) = Len(accepted)
                   /\ Range(sorted) = Range(accepted)
          /\ response.status = "success"
                => /\ Len(response.failures) = Len(accepted)
                   /\ \A i \in 1..Len(response.failures) :
                         /\ sorted[i] \in Range(accepted)
                         /\ SameSixFields(response.failures[i],
                                          candidates[sorted[i]])
                         /\ DOMAIN response.failures[i]
                              = DOMAIN candidates[sorted[i]])
    /\ [][/\ candidates' = candidates
          /\ (/\ mcur \in 1..Len(candidates)
              /\ mcur' = mcur + 1
              /\ \A s \in 1..Len(accepted) :
                    ~SameFailure(candidates[accepted[s]], candidates[mcur]))
                => accepted' = Append(accepted, mcur)]_vars

\* Three candidates went in, one was dropped for a duplicate with a higher
\* confidence, and the two events of the response are candidates unaltered,
\* one of them with a lower confidence than a duplicate of it.
MergerPassThroughWitness ==
    /\ stage = "responded"
    /\ Len(candidates) = 3
    /\ Len(response.failures) = 2
    /\ \E d \in 1..Len(lostTo) :
          lostTo[d] # 0 /\ candidates[lostTo[d]].confidence > candidates[d].confidence
    /\ \E i \in 1..2 : \E k \in 1..3 :
          /\ SameFailure(candidates[k], response.failures[i])
          /\ candidates[k].confidence > response.failures[i].confidence

\* A file's extension: the part of its name after the last dot, in lower
\* case; a name without a dot has none.
NameExtension(name) ==
    IF LastDot(name) = 0 THEN <<>>
    ELSE LowerText(SubSeq(name, LastDot(name) + 1, Len(name)))

Acceptable(f) ==
    /\ f # NoFile
    /\ NameExtension(f.name) \in {<<"m","p","4">>, <<"m","o","v">>, <<"w","e","b","m">>}
    /\ f.size <= 500 * 1024 * 1024

\* C18 (client state/data consistency): in the states selected and
\* analyzing a file is held whose extension is mp4, mov or webm and whose
\* size is at most 500 MB; in the state done the result is not null and the
\* error is empty; in the state idle the file and the result are null, the
\* error is empty and activeStep is 0.
ClientConsistency ==
    /\ state \in {"selected", "analyzing"} => Acceptable(file)
    /\ state = "done" => result # JsonNull /\ errorMsg = ""
    /\ state = "idle"
          => /\ file = NoFile
             /\ result = JsonNull
             /\ errorMsg = ""
             /\ activeStep = 0

\* C19 (the analysis run completes cleanly): the progress interval runs
\* only while the client is analyzing and the fetch is pending, and
\* activeStep never exceeds PIPELINE_STEPS.length - 1; analyze is suspended
\* exactly while the state is analyzing; the client leaves analyzing only
\* for done or error, with no interval running afterwards: for done exactly
\* when a 2xx response's body parsed, the parsed body being the result, and
\* for error, with a message, after a network failure, a non-2xx response
\* or an unparseable body; and outside analyzing activeStep changes only
\* by a reset.
AnalysisCompletesCleanly ==
    /\ [](/\ stepInterval => state = "analyzing" /\ pc = "fetching"
          /\ activeStep \in 0..(Len(PIPELINE_STEPS) - 1)
          /\ (pc # "none") <=> (state = "analyzing"))
    /\ [][/\ (state = "analyzing" /\ state' # "analyzing")
              => /\ state' \in {"done", "error"}
                 /\ ~stepInterval'
                 /\ pc = "reading" => ~stepInterval
                 /\ (state' = "done")
                      <=> (pc = "reading" /\ res.ok /\ res.body # NotJson)
                 /\ state' = "done" => result' = res.body /\ errorMsg' = ""
                 /\ state' = "error" => errorMsg' # "" /\ result' = JsonNull
          /\ (state # "analyzing" /\ activeStep' # activeStep)
              => state' \in {"idle", "analyzing"} /\ activeStep' = 0]_vars

\* The progress display reached its last step, then the request failed on
\* the network: the client shows the error and no interval is running.
AnalysisCompletesWitness ==
    /\ state = "error"
    /\ errorMsg = MsgFetchFailed
    /\ activeStep = Len(PIPELINE_STEPS) - 1
    /\ ~stepInterval

\* C20 (client-side rejection): a step that takes the client from idle to
\* error sets a message and leaves file and result unchanged; the only
\* other outcome of offering a file is selected, and the file then held has
\* an extension of mp4, mov or webm and at most 500 MB, so a file that is
\* not like that is rejected; a request to /analyze goes out only from
\* selected, for the file held, and never for a file with another
\* extension, without extension or over 500 MB.
ClientSideRejection ==
    /\ [][/\ (state = "idle" /\ state' = "error")
              => errorMsg' # "" /\ file' = file /\ result' = result
          /\ (state = "idle" /\ state' # "idle")
              => \/ state' = "error"
                 \/ state' = "selected" /\ Acceptable(file')
          /\ sent' # sent \/ (pc = "none" /\ pc' = "fetching")
              => state = "selected" /\ file # NoFile /\ sent' = file]_vars
    /\ [](sent # NoFile => Acceptable(sent))

=============================================================================
